---- MODULE Spec2Model ----
(***************************************************************************)
(* A model of src/game_of_life.py: the GameOfLife object (board, ROWS,     *)
(* COLS, CONFIG), the configuration file it reads and writes, and the      *)
(* controller (game_controller, game_loop) that maps key events to         *)
(* populate_board, update_board, save_config and draw_board.               *)
(*                                                                         *)
(* A board is a numpy array of shape (rows, cols): the record              *)
(*   [rows |-> R, cols |-> C, cell |-> the rows, each a sequence of C     *)
(*    integers]; Python's board[r, c] is cell[r + 1][c + 1].               *)
(* A stored pattern is what json.load gives: a sequence of rows, each a    *)
(* sequence of integers (1-indexed, as TLA+ sequences are).                *)
(*                                                                         *)
(* The curses primitives (addstr, rectangle, refresh, curs_set) are taken  *)
(* to succeed on every terminal; config.json is taken to exist and to      *)
(* parse. An exception that leaves game_controller ends the process:       *)
(* pc = "crashed", with the exception's type in error.                     *)
(***************************************************************************)
EXTENDS Integers, Sequences, FiniteSets, TLC

VARIABLES
    pc,             \* "start" | "await" (getch, line 240) | "running" (getch, line 163)
                    \* | "terminated" (break, line 176) | "crashed" (uncaught exception)
    SCREEN_HEIGHT,  \* self.SCREEN_HEIGHT
    SCREEN_WIDTH,   \* self.SCREEN_WIDTH
    ROWS,           \* self.ROWS
    COLS,           \* self.COLS
    board,          \* self.board
    CONFIG,         \* self.CONFIG: name -> pattern
    config_file,    \* the parsed content of config.json: name -> pattern
    drawn,          \* the boards draw_board was called with while the last key was handled
    savedBoard,     \* history: <<B>> when the last save_config of this session saw board B
    handled,        \* history: what the last key ran: "update_board", "save_config",
                    \* "break", "ignore", or the option populate_board was called with
    error           \* "none", or the type of the exception that ended the process

vars == <<pc, SCREEN_HEIGHT, SCREEN_WIDTH, ROWS, COLS, board, CONFIG, config_file,
          drawn, savedBoard, handled, error>>

----------------------------------------------------------------------------
(* Bounds of the model *)

\* The controller is explored on terminals whose board has at most MaxCells cells.
MaxCells == 5

\* The engine is explored on every board of at most EngineMaxCells cells.
EngineMaxCells == 12

\* The longest side of a board in the sessions seeded from stored patterns only
PatternMaxSide == 7

----------------------------------------------------------------------------
(* Program constants *)

LEFT_MARGIN == 2
RIGHT_MARGIN == 13
TOP_MARGIN == 3
BOTTOM_MARGIN == 2

\* curses.KEY_ENTER
KEY_ENTER == 343

\* ord() of the characters the code names
ord(ch) ==
    CASE ch = "0" -> 48 [] ch = "1" -> 49 [] ch = "2" -> 50 [] ch = "3" -> 51
      [] ch = "4" -> 52 [] ch = "5" -> 53 [] ch = "6" -> 54 [] ch = "7" -> 55
      [] ch = "8" -> 56 [] ch = "9" -> 57
      [] ch = "r" -> 114 [] ch = "R" -> 82
      [] ch = "s" -> 115 [] ch = "S" -> 83
      [] ch = "q" -> 113 [] ch = "Q" -> 81
      [] ch = "x" -> 120

\* self.OPTIONS: key code -> configuration name
OPTIONS ==
    [k \in (48..57) \cup {114} |->
        CASE k = 48 -> "Block"   [] k = 49 -> "Beehive" [] k = 50 -> "Loaf"
          [] k = 51 -> "Boat"    [] k = 52 -> "Tub"     [] k = 53 -> "Blinker"
          [] k = 54 -> "Toad"    [] k = 55 -> "Beacon"  [] k = 56 -> "Glider"
          [] k = 57 -> "Saved"   [] k = 114 -> "Random"]

----------------------------------------------------------------------------
(* Inputs *)

\* The key events getch is taken to return: the three advance codes, both save
\* and both quit letters, the seed keys of the patterns the modelled store
\* holds, the Saved and Random keys, and two keys the loop does not name.
Keys ==
    {KEY_ENTER, 10, 13, ord("s"), ord("S"), ord("0"), ord("5"), ord("9"),
     ord("r"), ord("q"), ord("Q"), ord("R"), ord("x")}

Block == << <<1, 1>>, <<1, 1>> >>
Blinker == << <<1, 1, 1>> >>

\* What config.json may hold when the session starts: the menu patterns, and
\* either no saved board or one saved by an earlier session.
Patterns == [n \in {"Block", "Blinker"} |-> IF n = "Block" THEN Block ELSE Blinker]

WithSaved(store, list) ==
    [n \in DOMAIN store \cup {"Saved"} |-> IF n = "Saved" THEN list ELSE store[n]]

InitialStores == {Patterns, WithSaved(Patterns, << <<0, 1>>, <<1, 0>> >>)}

\* The terminal sizes getmaxyx is taken to return: every size whose board has
\* between -1 and MaxCells rows and columns and at most MaxCells cells.
ScreenSizes ==
    {hw \in ((TOP_MARGIN + BOTTOM_MARGIN)..(TOP_MARGIN + BOTTOM_MARGIN + 1 + MaxCells))
            \X ((LEFT_MARGIN + RIGHT_MARGIN)..(LEFT_MARGIN + RIGHT_MARGIN + 1 + MaxCells)) :
        LET r == hw[1] - TOP_MARGIN - BOTTOM_MARGIN - 1
            c == hw[2] - LEFT_MARGIN - RIGHT_MARGIN - 1
        IN  r <= 0 \/ c <= 0 \/ r * c <= MaxCells}

----------------------------------------------------------------------------
(* numpy and json *)

Min(a, b) == IF a <= b THEN a ELSE b

\* b[r, c], for Python's 0-based r and c
at(b, r, c) == b.cell[r + 1][c + 1]

\* The array with the two axes exchanged, as np.zeros((C, R)) would give
zeros_swapped(R, C) ==
    [rows |-> C, cols |-> R, cell |-> [i \in 1..C |-> [j \in 1..R |-> 0]]]

\* np.zeros((R, C), dtype=int)
zeros(R, C) ==
    [rows |-> R, cols |-> C, cell |-> [i \in 1..R |-> [j \in 1..C |-> 0]]]

\* np.random.randint(0, 2, (R, C)): any array of that shape over {0, 1}
randint(R, C) ==
    {[rows |-> R, cols |-> C, cell |-> f] :
        f \in [1..R -> [1..C -> {0, 1}]]}

\* The rows of the transposed array, as board.T.tolist() would give
tolist_transposed(b) ==
    [j \in 1..b.cols |-> [i \in 1..b.rows |-> b.cell[i][j]]]

\* ndarray.tolist(): the rows as lists
tolist(b) ==
    [i \in 1..b.rows |-> [j \in 1..b.cols |-> b.cell[i][j]]]

----------------------------------------------------------------------------
(* GameOfLife *)

\* set_screen: the fields after stdscr.getmaxyx() returned (h, w)
set_screen(h, w) ==
    /\ SCREEN_HEIGHT' = h
    /\ SCREEN_WIDTH' = w
    /\ ROWS' = h - TOP_MARGIN - BOTTOM_MARGIN - 1
    /\ COLS' = w - LEFT_MARGIN - RIGHT_MARGIN - 1

\* load_config: self.CONFIG after json.load
load_config == config_file

\* A save that builds a fresh map holding the saved board alone
save_config_only_saved == [n \in {"Saved"} |-> tolist(board)]

\* save_config: self.CONFIG after CONFIG["Saved"] = board.tolist(); the same map
\* is then dumped to config.json
save_config == WithSaved(CONFIG, tolist(board))

\* The slice assignment board[0:len(p), 0:len(p[0])] = p of lines 77-79. Its
\* target is the slice clipped to the board; numpy broadcasts p to the target's
\* shape, which works when each axis of p has the target's length or length 1,
\* and raises ValueError otherwise.
broadcasts(p) ==
    LET p_rows == Len(p)
        p_cols == Len(p[1])
    IN  /\ (p_rows = Min(p_rows, ROWS) \/ p_rows = 1)
        /\ (p_cols = Min(p_cols, COLS) \/ p_cols = 1)

\* The same assignment without line 72: p written over the board as it was
placed_over_old(p) ==
    LET tr == Min(Len(p), ROWS)
        tc == Min(Len(p[1]), COLS)
    IN  [rows |-> ROWS, cols |-> COLS, cell |->
            [i \in 1..ROWS |-> [j \in 1..COLS |->
                IF i - 1 < tr /\ j - 1 < tc THEN p[i][j] ELSE at(board, i - 1, j - 1)]]]

\* The board after lines 72 and 77-79 when the assignment succeeds: zeros, with
\* p written at the top-left corner
placed(p) ==
    LET tr == Min(Len(p), ROWS)
        tc == Min(Len(p[1]), COLS)
        z  == zeros(ROWS, COLS)
    IN  [z EXCEPT !.cell =
            [i \in 1..ROWS |-> [j \in 1..COLS |->
                IF i - 1 < tr /\ j - 1 < tc THEN p[i][j] ELSE at(z, i - 1, j - 1)]]]

\* populate_board(option), after load_config: the possible outcomes, each the
\* value of self.board when the call returns or raises and the exception raised.
populate_board(option) ==
    IF ROWS < 0 \/ COLS < 0
    THEN \* line 72: np.zeros refuses a negative dimension
         {[board |-> board, err |-> "ValueError"]}
    ELSE IF option = "Random"
    THEN {[board |-> b, err |-> "none"] : b \in randint(ROWS, COLS)}
    ELSE IF option \notin DOMAIN load_config
    THEN \* line 78: CONFIG[option], after the board was replaced by zeros
         {[board |-> zeros(ROWS, COLS), err |-> "KeyError"]}
    ELSE LET p == load_config[option]
         IN  IF Len(p) = 0
             THEN \* line 78: CONFIG[option][0] of an empty list
                  {[board |-> zeros(ROWS, COLS), err |-> "IndexError"]}
             ELSE IF ~broadcasts(p)
             THEN {[board |-> zeros(ROWS, COLS), err |-> "ValueError"]}
             ELSE {[board |-> placed(p), err |-> "none"]}

\* count_alive_neighbours(r, c) on self.board = b: the two loops of lines 94-98
\* unrolled, every index wrapped as (x + ROWS) % ROWS, then minus the centre
row_sum(b, x, c) ==
    LET wx == (x + ROWS) % ROWS
    IN  at(b, wx, ((c - 1) + COLS) % COLS)
      + at(b, wx, (c + COLS) % COLS)
      + at(b, wx, ((c + 1) + COLS) % COLS)

\* The count without the wrap: a neighbour outside the board counts as dead
cell_or_dead(b, x, y) ==
    IF x \in 0..(ROWS - 1) /\ y \in 0..(COLS - 1) THEN at(b, x, y) ELSE 0

count_alive_neighbours_no_wrap(b, r, c) ==
      cell_or_dead(b, r - 1, c - 1) + cell_or_dead(b, r - 1, c) + cell_or_dead(b, r - 1, c + 1)
    + cell_or_dead(b, r, c - 1) + cell_or_dead(b, r, c + 1)
    + cell_or_dead(b, r + 1, c - 1) + cell_or_dead(b, r + 1, c) + cell_or_dead(b, r + 1, c + 1)

\* The count of the 3x3 block with the centre left in
count_alive_neighbours_with_centre(b, r, c) ==
    row_sum(b, r - 1, c) + row_sum(b, r, c) + row_sum(b, r + 1, c)

\* The count over the distinct cells around (r, c): a cell that several
\* offsets wrap onto is counted once, and (r, c) itself never
count_alive_neighbours_distinct(b, r, c) ==
    Cardinality({q \in {<<(r + dr + ROWS) % ROWS, (c + dc + COLS) % COLS>> :
                            dr \in {-1, 0, 1}, dc \in {-1, 0, 1}} \ {<<r, c>>} :
                    at(b, q[1], q[2]) = 1})

count_alive_neighbours(b, r, c) ==
    row_sum(b, r - 1, c) + row_sum(b, r, c) + row_sum(b, r + 1, c) - at(b, r, c)

\* The rule with the birth test written n <= 3
next_cell_born_up_to_three(b, r, c, n) ==
    IF at(b, r, c) = 1
    THEN (IF n <= 3 /\ n >= 2 THEN 1 ELSE 0)
    ELSE IF at(b, r, c) = 0
    THEN (IF n <= 3 THEN 1 ELSE 0)
    ELSE 0

\* The rule with survival on exactly two neighbours only
next_cell_survives_on_two(b, r, c, n) ==
    IF at(b, r, c) = 1
    THEN (IF n = 2 THEN 1 ELSE 0)
    ELSE IF at(b, r, c) = 0
    THEN (IF n = 3 THEN 1 ELSE 0)
    ELSE 0

\* The next state of cell (r, c) of b with n alive neighbours (lines 111-117)
next_cell(b, r, c, n) ==
    IF at(b, r, c) = 1
    THEN (IF n <= 3 /\ n >= 2 THEN 1 ELSE 0)
    ELSE IF at(b, r, c) = 0
    THEN (IF n = 3 THEN 1 ELSE 0)
    ELSE 0

\* The loop of update_board over np.ndindex(board.shape), from the k-th cell
\* in row-major order on, writing into new_board and reading self.board
RECURSIVE update_cells(_, _)
update_cells(k, new_board) ==
    IF k >= board.rows * board.cols
    THEN new_board
    ELSE LET r == k \div board.cols
             c == k % board.cols
             alive_neighbours == count_alive_neighbours(board, r, c)
         IN  update_cells(k + 1,
                 [new_board EXCEPT !.cell[r + 1][c + 1] =
                                       next_cell(board, r, c, alive_neighbours)])

\* The same loop writing into the board it reads
RECURSIVE update_cells_in_place(_, _)
update_cells_in_place(k, b) ==
    IF k >= b.rows * b.cols
    THEN b
    ELSE LET r == k \div b.cols
             c == k % b.cols
             alive_neighbours == count_alive_neighbours(b, r, c)
         IN  update_cells_in_place(k + 1,
                 [b EXCEPT !.cell[r + 1][c + 1] = next_cell(b, r, c, alive_neighbours)])

update_board_in_place == update_cells_in_place(0, board)

\* update_board: the value assigned to self.board at line 119
update_board == update_cells(0, zeros(board.rows, board.cols))

----------------------------------------------------------------------------
(* The controller *)

\* [ord(str(x)) for x in range(10)] of line 171
DigitKeys == {ord(d) : d \in {"0", "1", "2", "3", "4", "5", "6", "7", "8", "9"}}

\* Line 164
IsAdvance(key) == key = KEY_ENTER \/ key \in {10, 13}
\* Line 168
IsSave(key) == ~IsAdvance(key) /\ (key = ord("s") \/ key = ord("S"))
\* Line 171
IsSeed(key) ==
    /\ ~IsAdvance(key) /\ ~IsSave(key)
    /\ (key \in DigitKeys \/ key = ord("r"))
\* The last branch written as a plain else: every other key quits
IsQuit_else(key) == ~IsAdvance(key) /\ ~IsSave(key) /\ ~IsSeed(key)

\* Line 175
IsQuit(key) ==
    /\ ~IsAdvance(key) /\ ~IsSave(key) /\ ~IsSeed(key)
    /\ (key = ord("q") \/ key = ord("Q"))

\* game_controller, lines 235-239: set_screen, then the title, box and menus
Setup(h, w) ==
    /\ pc = "start"
    /\ set_screen(h, w)
    /\ pc' = "await"
    /\ UNCHANGED <<board, CONFIG, config_file, drawn, savedBoard, handled, error>>

\* self.populate_board(self.OPTIONS[key]) followed by self.draw_board(stdscr)
\* (lines 172-173 and 241-242). OPTIONS[key] raises KeyError for a key OPTIONS
\* does not hold. The board is drawn, and the loop entered or continued, when
\* populate_board returns; an exception ends the process before the draw.
SeedAndDraw(key) ==
    IF key \notin DOMAIN OPTIONS
    THEN /\ pc' = "crashed"
         /\ error' = "KeyError"
         /\ drawn' = << >>
         /\ handled' = "none"
         /\ UNCHANGED <<SCREEN_HEIGHT, SCREEN_WIDTH, ROWS, COLS, board, CONFIG,
                        config_file, savedBoard>>
    ELSE /\ CONFIG' = load_config
         /\ handled' = OPTIONS[key]
         /\ \E out \in populate_board(OPTIONS[key]) :
               /\ board' = out.board
               /\ IF out.err = "none"
                  THEN /\ drawn' = <<out.board>>
                       /\ pc' = "running"
                       /\ error' = error
                  ELSE /\ drawn' = << >>
                       /\ pc' = "crashed"
                       /\ error' = out.err
         /\ UNCHANGED <<SCREEN_HEIGHT, SCREEN_WIDTH, ROWS, COLS, config_file, savedBoard>>

\* game_controller, lines 240-242: the first key selects the seed
FirstKey(key) ==
    /\ pc = "await"
    /\ SeedAndDraw(key)

\* game_loop, lines 164-166
Advance(key) ==
    /\ pc = "running"
    /\ IsAdvance(key)
    /\ board' = update_board
    /\ drawn' = <<board'>>
    /\ handled' = "update_board"
    /\ UNCHANGED <<pc, SCREEN_HEIGHT, SCREEN_WIDTH, ROWS, COLS, CONFIG, config_file,
                   savedBoard, error>>

\* game_loop, lines 168-169
Save(key) ==
    /\ pc = "running"
    /\ IsSave(key)
    /\ CONFIG' = save_config
    /\ config_file' = CONFIG'
    /\ savedBoard' = <<board>>
    /\ drawn' = << >>
    /\ handled' = "save_config"
    /\ UNCHANGED <<pc, SCREEN_HEIGHT, SCREEN_WIDTH, ROWS, COLS, board, error>>

\* game_loop, lines 171-173
Seed(key) ==
    /\ pc = "running"
    /\ IsSeed(key)
    /\ SeedAndDraw(key)

\* game_loop, lines 175-176
Quit(key) ==
    /\ pc = "running"
    /\ IsQuit(key)
    /\ pc' = "terminated"
    /\ drawn' = << >>
    /\ handled' = "break"
    /\ UNCHANGED <<SCREEN_HEIGHT, SCREEN_WIDTH, ROWS, COLS, board, CONFIG, config_file,
                   savedBoard, error>>

\* A loop iteration that also draws the board when no branch took the key
Ignore_redraw(key) ==
    /\ pc = "running"
    /\ ~IsAdvance(key) /\ ~IsSave(key) /\ ~IsSeed(key) /\ ~IsQuit(key)
    /\ drawn' = <<board>>
    /\ handled' = "ignore"
    /\ UNCHANGED <<pc, SCREEN_HEIGHT, SCREEN_WIDTH, ROWS, COLS, board, CONFIG,
                   config_file, savedBoard, error>>

\* game_loop: a key no branch names falls through to the next getch
Ignore(key) ==
    /\ pc = "running"
    /\ ~IsAdvance(key) /\ ~IsSave(key) /\ ~IsSeed(key) /\ ~IsQuit(key)
    /\ drawn' = << >>
    /\ handled' = "ignore"
    /\ UNCHANGED <<pc, SCREEN_HEIGHT, SCREEN_WIDTH, ROWS, COLS, board, CONFIG,
                   config_file, savedBoard, error>>

\* One iteration of the loop of game_loop on the key getch returned
game_loop(key) ==
    Advance(key) \/ Save(key) \/ Seed(key) \/ Quit(key) \/ Ignore(key)

----------------------------------------------------------------------------
(* Specifications *)

\* __init__ (lines 10-33), before game_controller runs
Init ==
    /\ pc = "start"
    /\ SCREEN_HEIGHT = 0
    /\ SCREEN_WIDTH = 0
    /\ ROWS = 0
    /\ COLS = 0
    /\ board = zeros(10, 10)
    /\ CONFIG = [n \in {} |-> << >>]
    /\ config_file \in InitialStores
    /\ drawn = << >>
    /\ savedBoard = << >>
    /\ handled = "none"
    /\ error = "none"

Next ==
    \/ \E hw \in ScreenSizes : Setup(hw[1], hw[2])
    \/ \E key \in Keys : FirstKey(key)
    \/ \E key \in Keys : Advance(key)
    \/ \E key \in Keys : Save(key)
    \/ \E key \in Keys : Seed(key)
    \/ \E key \in Keys : Quit(key)
    \/ \E key \in Keys : Ignore(key)

\* The session: any terminal of ScreenSizes, any key sequence over Keys
Spec == Init /\ [][Next]_vars

\* The engine on its own: the states the loop is in right after the Random
\* seed was selected and drawn, for every board shape of EngineSizes and every
\* board of that shape, and from there the advance key only.
EngineSizes ==
    {rc \in (1..EngineMaxCells) \X (1..EngineMaxCells) : rc[1] * rc[2] <= EngineMaxCells}

EngineInit ==
    /\ pc = "running"
    /\ \E rc \in EngineSizes :
          /\ ROWS = rc[1]
          /\ COLS = rc[2]
          /\ SCREEN_HEIGHT = rc[1] + TOP_MARGIN + BOTTOM_MARGIN + 1
          /\ SCREEN_WIDTH = rc[2] + LEFT_MARGIN + RIGHT_MARGIN + 1
          /\ board \in randint(rc[1], rc[2])
    /\ CONFIG = Patterns
    /\ config_file = Patterns
    /\ drawn = <<board>>
    /\ savedBoard = << >>
    /\ handled = "Random"
    /\ error = "none"

EngineNext == \E key \in Keys : Advance(key)

EngineSpec == EngineInit /\ [][EngineNext]_vars

\* The session without the Random seed: every board comes from a stored
\* pattern, which leaves room for boards of up to PatternMaxSide rows and
\* columns.
StoredKeys == Keys \ {ord("r")}

PatternScreenSizes ==
    {<<r + TOP_MARGIN + BOTTOM_MARGIN + 1, c + LEFT_MARGIN + RIGHT_MARGIN + 1>> :
        r \in 1..PatternMaxSide, c \in 1..PatternMaxSide}

SeededNext ==
    \/ \E hw \in PatternScreenSizes : Setup(hw[1], hw[2])
    \/ \E key \in StoredKeys : FirstKey(key)
    \/ \E key \in StoredKeys : Advance(key)
    \/ \E key \in StoredKeys : Save(key)
    \/ \E key \in StoredKeys : Seed(key)
    \/ \E key \in StoredKeys : Quit(key)
    \/ \E key \in StoredKeys : Ignore(key)

SeededSpec == Init /\ [][SeededNext]_vars

----------------------------------------------------------------------------
(* Vocabulary of the properties *)

\* The key codes the loop names, as the documentation of game_loop lists them
AdvanceKeys == {343, 10, 13}
SaveKeys == {115, 83}
SeedKeys == (48..57) \cup {114}
QuitKeys == {113, 81}
NamedKeys == AdvanceKeys \cup SaveKeys \cup SeedKeys \cup QuitKeys

Alive(b, r, c) == at(b, r, c) = 1

SomeAlive(b) == \E r \in 0..(b.rows - 1), c \in 0..(b.cols - 1) : Alive(b, r, c)
SomeDead(b) == \E r \in 0..(b.rows - 1), c \in 0..(b.cols - 1) : ~Alive(b, r, c)

\* The ROWS x COLS board holding pattern p anchored at (0, 0), cut to the board,
\* and dead cells everywhere else
Anchored(p) ==
    [rows |-> ROWS, cols |-> COLS, cell |->
        [i \in 1..ROWS |-> [j \in 1..COLS |->
            IF i <= Len(p) /\ j <= Len(p[1]) THEN p[i][j] ELSE 0]]]

\* list is board b row by row
HoldsBoard(list, b) ==
    /\ Len(list) = b.rows
    /\ \A i \in 1..b.rows :
          /\ Len(list[i]) = b.cols
          /\ \A j \in 1..b.cols : list[i][j] = at(b, i - 1, j - 1)

\* The key selects a stored (non-random) pattern that config.json holds
SelectsStored(key) ==
    /\ key \in DOMAIN OPTIONS
    /\ OPTIONS[key] # "Random"
    /\ OPTIONS[key] \in DOMAIN config_file
    /\ Len(config_file[OPTIONS[key]]) >= 1

----------------------------------------------------------------------------
(* C1 *)

\* C1: update_board replaces board B by the board in which cell (r, c) is alive
\* iff (B[r,c] is alive and n is 2 or 3) or (B[r,c] is dead and n is 3), with
\* n = count_alive_neighbours(r, c) taken on B itself, never on a cell already
\* updated in the same step; the shape is kept.
C1_UpdateRule ==
    [][(\E key \in AdvanceKeys : Advance(key)) =>
          /\ board'.rows = board.rows
          /\ board'.cols = board.cols
          /\ \A r \in 0..(board.rows - 1), c \in 0..(board.cols - 1) :
                LET n == count_alive_neighbours(board, r, c)
                IN  at(board', r, c) =
                        IF \/ (Alive(board, r, c) /\ n \in {2, 3})
                           \/ (~Alive(board, r, c) /\ n = 3)
                        THEN 1 ELSE 0]_vars

\* An advance has produced a board of at least 3 x 3 with alive and dead cells
C1_Witness ==
    /\ pc = "running"
    /\ handled = "update_board"
    /\ ROWS >= 3 /\ COLS >= 3
    /\ SomeAlive(board) /\ SomeDead(board)

----------------------------------------------------------------------------
(* C2 *)

\* C2: seeding a stored pattern with more rows or more columns than the board
\* completes without error: the board holds the pattern's top-left
\* min(rows) x min(cols) cells, every other cell dead, and the controller is
\* in Running afterwards.
C2_LargerPatternIsTruncated ==
    [][\A key \in Keys :
          (/\ ROWS >= 1 /\ COLS >= 1
           /\ SelectsStored(key)
           /\ (\/ Len(config_file[OPTIONS[key]]) > ROWS
               \/ Len(config_file[OPTIONS[key]][1]) > COLS)
           /\ (FirstKey(key) \/ Seed(key)))
          => /\ pc' = "running"
             /\ error' = "none"
             /\ board' = Anchored(config_file[OPTIONS[key]])]_vars

----------------------------------------------------------------------------
(* C3 *)

\* C3: once 's' was issued in Running with board B, then after any sequence of
\* advance and seed-selection commands with no further save, the '9' (Saved)
\* command makes the board equal to B, cell for cell and in its dimensions
\* (and, on a board with at least one row, draws it and stays in Running).
C3_SaveRestoreRoundTrip ==
    [][(pc = "running" /\ savedBoard # << >> /\ Seed(57)) =>
          /\ board' = savedBoard[1]
          /\ (ROWS >= 1 => pc' = "running" /\ drawn' = <<savedBoard[1]>>)]_vars

\* The Saved option has just restored a saved board with alive and dead cells
C3_Witness ==
    /\ pc = "running"
    /\ handled = "Saved"
    /\ savedBoard # << >>
    /\ board = savedBoard[1]
    /\ SomeAlive(board) /\ SomeDead(board)

----------------------------------------------------------------------------
(* C4 *)

OnlyOriginAlive ==
    /\ ROWS >= 1 /\ COLS >= 1
    /\ board.rows = ROWS /\ board.cols = COLS
    /\ \A r \in 0..(ROWS - 1), c \in 0..(COLS - 1) :
          at(board, r, c) = IF r = 0 /\ c = 0 THEN 1 ELSE 0

WrappedNeighboursCountOne ==
    /\ count_alive_neighbours(board, ROWS - 1, COLS - 1) = 1
    /\ count_alive_neighbours(board, ROWS - 1, 0) = 1
    /\ count_alive_neighbours(board, 0, COLS - 1) = 1

\* C4, as claimed: on a board of any size R x C whose only alive cell is (0, 0),
\* count_alive_neighbours is 1 at (R-1, C-1), (R-1, 0) and (0, C-1).
C4_WrapCountsOneAnySize ==
    (pc = "running" /\ OnlyOriginAlive) => WrappedNeighboursCountOne

\* C4, amended: the same on a board with at least 3 rows and 3 columns.
C4_WrapCountsOneFrom3x3 ==
    (pc = "running" /\ OnlyOriginAlive /\ ROWS >= 3 /\ COLS >= 3)
        => WrappedNeighboursCountOne

\* A board wider than 3 columns whose only alive cell is (0, 0)
C4_Witness ==
    pc = "running" /\ OnlyOriginAlive /\ ROWS >= 3 /\ COLS >= 4

----------------------------------------------------------------------------
(* C5 *)

\* C5: a seed selection asking for a pattern key config.json does not hold
\* fails and leaves the board exactly as it was before the command.
C5_FailedSeedKeepsBoard ==
    [][\A key \in Keys :
          (/\ pc = "running"
           /\ ROWS >= 1 /\ COLS >= 1
           /\ key \in DOMAIN OPTIONS
           /\ OPTIONS[key] # "Random"
           /\ OPTIONS[key] \notin DOMAIN config_file
           /\ Seed(key))
          => /\ error' # "none"
             /\ board' = board]_vars

----------------------------------------------------------------------------
(* C6 *)

\* C6: for a stored pattern that fits the board, the board after populate_board
\* is the pattern anchored at (0, 0) with every other cell dead, whatever the
\* board was before the call.
C6_SeedDependsOnlyOnPattern ==
    [][\A key \in Keys :
          (/\ SelectsStored(key)
           /\ Len(config_file[OPTIONS[key]]) <= ROWS
           /\ Len(config_file[OPTIONS[key]][1]) <= COLS
           /\ (FirstKey(key) \/ Seed(key)))
          => /\ pc' = "running"
             /\ board' = Anchored(config_file[OPTIONS[key]])]_vars

\* Blinker was seeded, on a board larger than the pattern, in a session in
\* which a different board with alive cells had been saved
C6_Witness ==
    /\ pc = "running"
    /\ handled = "Blinker"
    /\ SomeAlive(board) /\ SomeDead(board)
    /\ savedBoard # << >>
    /\ savedBoard[1] # board
    /\ SomeAlive(savedBoard[1])

----------------------------------------------------------------------------
(* C7 *)

\* C7: in Running, a key that is not advance, save, a seed selection or quit
\* leaves the board, the configuration store and the controller state
\* unchanged, causes no redraw and raises no error.
C7_UnrecognizedKeyIgnored ==
    [][\A key \in Keys \ NamedKeys :
          (pc = "running" /\ game_loop(key))
          => /\ UNCHANGED <<pc, board, CONFIG, config_file, ROWS, COLS,
                            SCREEN_HEIGHT, SCREEN_WIDTH, savedBoard, error>>
             /\ drawn' = << >>]_vars

\* An unnamed key was just ignored on a board with alive cells
C7_Witness ==
    pc = "running" /\ handled = "ignore" /\ SomeAlive(board) /\ drawn = << >>

----------------------------------------------------------------------------
(* C8 *)

\* C8: draw_board is invoked exactly once, with the board just produced, after
\* every seed selection (the first included) and every advance, before the
\* next key is read, and at no other time.
C8_DrawnExactlyAfterMutation ==
    [][\A key \in Keys :
          (/\ ROWS >= 1 /\ COLS >= 1
           /\ (FirstKey(key) \/ game_loop(key)))
          => drawn' =
                IF \/ key \in SeedKeys
                   \/ (pc = "running" /\ key \in AdvanceKeys)
                THEN <<board'>> ELSE << >>]_vars

----------------------------------------------------------------------------
(* C9 *)

\* C9: in Running a quit key moves the controller to Terminated without
\* mutating the board, writing the store or redrawing; nothing happens after
\* Terminated; and no other key moves the controller to Terminated.
C9_QuitTerminates ==
    [][/\ pc # "terminated"
       /\ \A key \in QuitKeys :
             (pc = "running" /\ game_loop(key))
             => /\ pc' = "terminated"
                /\ UNCHANGED <<board, CONFIG, config_file, savedBoard, error>>
                /\ drawn' = << >>
       /\ pc' = "terminated"
             => \A key \in Keys \ QuitKeys : ~(FirstKey(key) \/ game_loop(key))]_vars

\* The loop was left by a quit key with alive cells on the board
C9_Witness ==
    pc = "terminated" /\ handled = "break" /\ SomeAlive(board)

----------------------------------------------------------------------------
(* C10 *)

\* C10: the save command leaves the board and the controller state unchanged,
\* draws nothing and changes the store only at "Saved", whose value becomes the
\* current board; every other key keeps its value; and after any number of
\* saves the store's saved board is the one of the latest save.
C10_SaveWritesOnlySavedSlot ==
    [][/\ \A key \in SaveKeys :
             (pc = "running" /\ game_loop(key))
             => /\ board' = board
                /\ pc' = "running"
                /\ drawn' = << >>
                /\ DOMAIN config_file' = DOMAIN config_file \cup {"Saved"}
                /\ \A n \in DOMAIN config_file \ {"Saved"} :
                      config_file'[n] = config_file[n]
                /\ HoldsBoard(config_file'["Saved"], board)
       /\ savedBoard' # << >>
             => /\ "Saved" \in DOMAIN config_file'
                /\ HoldsBoard(config_file'["Saved"], savedBoard'[1])]_vars

\* A save has just written a board with alive cells to the store, next to the patterns
C10_Witness ==
    /\ pc = "running"
    /\ handled = "save_config"
    /\ savedBoard = <<board>>
    /\ SomeAlive(board)
    /\ HoldsBoard(config_file["Saved"], board)
    /\ "Block" \in DOMAIN config_file

----------------------------------------------------------------------------
(* C11 *)

----------------------------------------------------------------------------
(* C12 *)

\* C12: on a board with 0 rows or 0 columns the advance and the seeding of any
\* stored pattern complete without error and leave the same empty board.
C12_EmptyBoardOperationsAreNoOps ==
    [][\A key \in Keys :
          (/\ pc = "running"
           /\ ROWS >= 0 /\ COLS >= 0
           /\ (ROWS = 0 \/ COLS = 0)
           /\ (key \in AdvanceKeys \/ SelectsStored(key))
           /\ game_loop(key))
          => /\ pc' = "running"
             /\ error' = "none"
             /\ board' = board]_vars

----------------------------------------------------------------------------
(* C18 *)

\* C18: in AwaitingSeedChoice a key that is not a seed selection is ignored
\* without error, and the controller stays in AwaitingSeedChoice; only a seed
\* key leaves it.
C18_FirstKeyNotASeedIsIgnored ==
    [][\A key \in Keys \ SeedKeys :
          (pc = "await" /\ FirstKey(key))
          => /\ pc' = "await"
             /\ error' = "none"
             /\ UNCHANGED <<board, CONFIG, config_file>>]_vars

----------------------------------------------------------------------------
(* C19 *)

\* C19: in every Running state the board has exactly ROWS x COLS cells, the
\* dimensions fixed at bootstrap, and every cell is 0 or 1.
C19_RunningBoardShapeAndCells ==
    pc = "running" =>
        /\ ROWS = SCREEN_HEIGHT - TOP_MARGIN - BOTTOM_MARGIN - 1
        /\ COLS = SCREEN_WIDTH - LEFT_MARGIN - RIGHT_MARGIN - 1
        /\ board.rows = ROWS
        /\ board.cols = COLS
        /\ Len(board.cell) = ROWS
        /\ \A i \in 1..ROWS :
              /\ Len(board.cell[i]) = COLS
              /\ \A j \in 1..COLS : board.cell[i][j] \in {0, 1}

\* An advance in a session that has saved, on a board with alive and dead cells
\* and rows and columns of different number
C19_Witness ==
    /\ pc = "running"
    /\ handled = "update_board"
    /\ savedBoard # << >>
    /\ ROWS # COLS
    /\ SomeAlive(board) /\ SomeDead(board)

----------------------------------------------------------------------------
(* C13 *)

\* C13: on every board of 0/1 cells with at least one row and one column, and
\* for every cell of it, count_alive_neighbours lies in 0..8.
C13_CountWithinZeroToEight ==
    (ROWS >= 1 /\ COLS >= 1) =>
        \A r \in 0..(ROWS - 1) : \A c \in 0..(COLS - 1) :
            count_alive_neighbours(board, r, c) \in 0..8

\* Boards where the two ends of the range are taken: every cell alive on a
\* single row, where one alive cell stands for several offsets
C13_Witness ==
    /\ ROWS = 1 /\ COLS >= 2
    /\ ~SomeDead(board)
    /\ count_alive_neighbours(board, 0, 0) = 8

----------------------------------------------------------------------------
(* C16 *)

AllDead(b) == ~SomeAlive(b)

\* C16: an advance of a board whose cells are all dead gives a board whose
\* cells are all dead, whatever the size.
C16_AllDeadStaysAllDead ==
    [][\A key \in Keys :
          (AllDead(board) /\ Advance(key)) => (AllDead(board') /\ board' = board)]_vars

\* An all-dead board of several rows and columns, after an advance
C16_Witness ==
    /\ handled = "update_board"
    /\ ROWS >= 3 /\ COLS >= 3
    /\ AllDead(board)
    /\ drawn = <<board>>

----------------------------------------------------------------------------
(* C17 *)

\* The eight offsets around a cell
Offsets == {d \in {-1, 0, 1} \X {-1, 0, 1} : d # <<0, 0>>}

RECURSIVE SumOver(_, _, _, _)
SumOver(ds, b, r, c) ==
    IF ds = {} THEN 0
    ELSE LET d == CHOOSE e \in ds : TRUE
         IN  at(b, (r + d[1]) % ROWS, (c + d[2]) % COLS) + SumOver(ds \ {d}, b, r, c)

\* C17: count_alive_neighbours(r, c) is the sum, over the eight offsets, of the
\* cell at ((r + dr) mod R, (c + dc) mod C), a cell reached by several offsets
\* being counted once per offset; so on a 1x1 board it is 8 for an alive cell
\* and 0 for a dead one, and a 1x1 board is all dead after one advance.
C17_CountWithMultiplicity ==
    /\ [](\A r \in 0..(ROWS - 1) : \A c \in 0..(COLS - 1) :
             /\ count_alive_neighbours(board, r, c) = SumOver(Offsets, board, r, c)
             /\ (ROWS = 1 /\ COLS = 1) =>
                    count_alive_neighbours(board, r, c) = 8 * at(board, r, c))
    /\ [][\A key \in Keys :
             (ROWS = 1 /\ COLS = 1 /\ Advance(key)) => AllDead(board')]_vars

\* The 1x1 board whose cell is alive, where the count is 8
C17_Witness ==
    /\ ROWS = 1 /\ COLS = 1
    /\ at(board, 0, 0) = 1
    /\ count_alive_neighbours(board, 0, 0) = 8

----------------------------------------------------------------------------
(* C14 *)

\* C14: on every board of at least 4 rows and 4 columns, selecting Block puts
\* the 2x2 block at the top-left corner, and every advance from there leaves
\* the board identical, so any number of generations does.
C14_BlockIsStill ==
    [][\A key \in StoredKeys :
          (ROWS >= 4 /\ COLS >= 4) =>
              /\ (key = ord("0") /\ (FirstKey(key) \/ Seed(key)))
                    => (pc' = "running" /\ board' = Anchored(Block))
              /\ (board = Anchored(Block) /\ Advance(key))
                    => board' = board]_vars

\* The block on a board of at least 4x4, after an advance
C14_Witness ==
    /\ ROWS >= 4 /\ COLS >= 4
    /\ handled = "update_board"
    /\ board = Anchored(Block)
    /\ drawn = <<board>>

----------------------------------------------------------------------------
(* C15 *)

\* The blinker one generation after its seed: the column through its middle
\* cell, from the last row, which the wrap reaches, to row 1
BlinkerTurned ==
    [zeros(ROWS, COLS) EXCEPT !.cell[ROWS][2] = 1, !.cell[1][2] = 1, !.cell[2][2] = 1]

\* C15: on a board of at least 5 rows and 5 columns, selecting Blinker puts the
\* pattern at the top-left corner; one advance gives a different board, and a
\* second advance gives exactly the seeded board again.
C15_BlinkerHasPeriodTwo ==
    [][\A key \in StoredKeys :
          (ROWS >= 5 /\ COLS >= 5) =>
              /\ (key = ord("5") /\ (FirstKey(key) \/ Seed(key)))
                    => (pc' = "running" /\ board' = Anchored(Blinker))
              /\ (board = Anchored(Blinker) /\ Advance(key))
                    => (board' # board /\ board' = BlinkerTurned)
              /\ (board = BlinkerTurned /\ Advance(key))
                    => board' = Anchored(Blinker)]_vars

\* The seeded blinker again, after an advance, on a board of at least 5x5
C15_Witness ==
    /\ ROWS >= 5 /\ COLS >= 5
    /\ handled = "update_board"
    /\ board = Anchored(Blinker)
    /\ drawn = <<board>>

====
